---------------------------- MODULE Spec2Model ----------------------------
(***************************************************************************)
(* A model of statspi: the event tallies of App (src/src/main.rs) with its *)
(* three workers (event consumer, tick consumer, second consumer), the     *)
(* response-time statistics of a bus passenger (src/src/bus.rs, repeated   *)
(* verbatim in src/src/citizen.rs), the enumeration of the passengers, the *)
(* health poller that probes them, and the ui that draws a frame.          *)
(*                                                                         *)
(* Every atomic operation of the code (one fetch_add, one swap, one load,  *)
(* one mutex acquisition, one critical section) is one action, so that the *)
(* interleavings of the workers are those of the program.  AtomicU64 and   *)
(* Duration values are modelled as naturals: the bounds below keep every   *)
(* value far from 2^64, where the code's arithmetic would wrap or abort.   *)
(***************************************************************************)
EXTENDS Naturals, Sequences, FiniteSets

(***************************************************************************)
(* Bounds of the model.                                                    *)
(***************************************************************************)
\* Stream items delivered when the event consumer runs alone.
MaxEvents == 3
\* Stream items, ticks and seconds when the three workers run together.
MaxAppEvents == 2
MaxAppTicks == 1
MaxAppSeconds == 2
\* Ticks beyond the capacity of the tick history, in the tick-history runs.
MaxExtraTicks == 1
\* Stream items in the tick-history runs, and the number of ticks during
\* which the stream delivers them there.
MaxTickEvents == 1
MaxEventTicks == 2
\* Largest duration sample (in nanoseconds) and longest sample sequence.
MaxSample == 10
MaxSamples == 3
\* The health poller: passengers in the line, rounds, the longer of the two
\* durations a probe measures.
NumPassengers == 2
MaxRounds == 2
MaxRtt == 2
\* The ui beside the poller: frames drawn, rounds of the poller.
MaxFrames == 1
MaxUiRounds == 1
\* Stream items, seconds and ticks while a frame is drawn.
MaxDrawEvents == 1
MaxDrawSeconds == 1
MaxDrawTicks == 1
\* Seconds beyond the capacity of the per-second history, and stream items
\* in the seconds around it.
MaxExtraSeconds == 1
MaxSecsEvents == 1
\* Stream items when the event consumer is scheduled fairly.
MaxFairEvents == 2
\* The names on the bus when the passengers are enumerated.
MaxNames == 3

(***************************************************************************)
(* Program constants.                                                      *)
(***************************************************************************)
\* vec![0; 200]: the tick history's length.
TickCapacity == 200
\* Vec::with_capacity(1800): the capacity the per-second history is created
\* with ("30 minutes").
SecsCapacity == 1800

(***************************************************************************)
(* Stream items.  A stream item is Ok(event) or Err(e); an event carries   *)
(* its category, an error the value that Display formats.                  *)
(***************************************************************************)
Recognized ==
    {"Mouse", "Keyboard", "Focus", "Window", "Document", "Object",
     "Terminal", "Cache", "Listener", "Available"}

\* A variant of AtspiEvent that on_event's match names no arm for.
Unrecognized == {"Other"}

ErrorValues == {"E1", "E2"}

OkItems == {[ok |-> TRUE, tag |-> k] : k \in Recognized \cup Unrecognized}

ErrItems == {[ok |-> FALSE, tag |-> e] : e \in ErrorValues}

Items == OkItems \cup ErrItems

\* The items of the runs in which several workers interleave: one event,
\* one error.
FewItems == {[ok |-> TRUE, tag |-> "Mouse"], [ok |-> FALSE, tag |-> "E1"]}

\* format!("{e}"): the text of an error value.
Format(e) == IF e = "E1" THEN "connection closed" ELSE "malformed message"

(***************************************************************************)
(* ScoreBoard and Counter.                                                 *)
(***************************************************************************)
Categories ==
    {"mouse", "keyboard", "focus", "window", "document", "object",
     "terminal", "cache", "listeners", "available", "other_event", "error"}

Globals == {"tick_counter", "secs_counter", "total_seconds", "total"}

CounterNames == Categories \cup Globals

\* Counter::incr: fetch_add(1).
incr(c) == c + 1

\* Counter::add: fetch_add(value), returns the previous value.
add(c, value) == [ret |-> c, new |-> c + value]

\* Counter::reset: swap(0), returns the previous value.
\* (Variant: a load in place of the swap, which leaves the count in place.)
reset_lost(c) == [ret |-> c, new |-> c]
reset(c) == [ret |-> c, new |-> 0]

\* Counter::load.
load(c) == c

\* Counter::set: swap(value), returns the previous value.
set(c, value) == [ret |-> c, new |-> value]

\* The arm of on_event's match that an item takes: the counter it increments.
\* (Variant: no arm for Cache, whose events fall through to Ok(_).)
CounterForNoCache(item) ==
    IF ~item.ok THEN "error"
    ELSE CASE item.tag = "Mouse" -> "mouse"
           [] item.tag = "Keyboard" -> "keyboard"
           [] item.tag = "Focus" -> "focus"
           [] item.tag = "Window" -> "window"
           [] item.tag = "Document" -> "document"
           [] item.tag = "Object" -> "object"
           [] item.tag = "Terminal" -> "terminal"
           [] item.tag = "Listener" -> "listeners"
           [] item.tag = "Available" -> "available"
           [] OTHER -> "other_event"
CounterFor(item) ==
    IF ~item.ok THEN "error"
    ELSE CASE item.tag = "Mouse" -> "mouse"
           [] item.tag = "Keyboard" -> "keyboard"
           [] item.tag = "Focus" -> "focus"
           [] item.tag = "Window" -> "window"
           [] item.tag = "Document" -> "document"
           [] item.tag = "Object" -> "object"
           [] item.tag = "Terminal" -> "terminal"
           [] item.tag = "Cache" -> "cache"
           [] item.tag = "Listener" -> "listeners"
           [] item.tag = "Available" -> "available"
           [] OTHER -> "other_event"

(***************************************************************************)
(* Vec<u64>.                                                               *)
(***************************************************************************)
\* vec![0; n]
VecZeros(n) == [i \in 1..n |-> 0]

\* Vec::pop: removes the last element; nothing to remove from an empty Vec.
\* (Variant: the pop left out.)
VecPopNone(v) == v
VecPop(v) == IF Len(v) = 0 THEN v ELSE SubSeq(v, 1, Len(v) - 1)

\* Vec::insert(0, x): x at index 0, every element shifted to the right.
\* (Variant: x appended at the back.)
VecInsertBack(v, x) == Append(v, x)
VecInsertFront(v, x) == <<x>> \o v

\* Vec::push
\* (Variant: the oldest element dropped to make room for x.)
VecPushRolling(v, x) == IF Len(v) = 0 THEN <<x>> ELSE Append(Tail(v), x)
VecPush(v, x) == Append(v, x)

(***************************************************************************)
(* State.                                                                  *)
(***************************************************************************)
VARIABLES
    tally,        \* App.tally: the sixteen counters of ScoreBoard
    rt_stats,     \* App.rt_stats: rate, max, mean
    error_set,    \* App.error_set: the HashSet<String> inside the mutex
    tick_data,    \* App.tick_data: the Vec<u64> inside the mutex
    secs_data,    \* App.secs_data: the Vec<u64> inside the mutex
    mutex,        \* the holder of each of the three mutexes, or "free"
    ec,           \* event consumer: pc, the item of the on_event call, msg
    tc,           \* tick consumer: pc, on_tick's value
    sc,           \* second consumer: pc, on_second's value, len and mean
    history,      \* the stream items delivered so far, in order
    entry,        \* the tally when the current (or last) on_event call began
    oplog,        \* per drained counter: its incr and reset calls, in order
    pushed,       \* the values on_tick has put into tick_data, in order
    stats,        \* ResponseStats of one bus passenger
    samples_in,   \* the durations to feed to update_rtt_stats
    st            \* statistics feeder: pc, number of samples fed

VARIABLES
    bus_names,    \* the names list_names returned, with what each one answers
    line,         \* BusPassengers.line: the passengers, each in its own mutex
    en,           \* BusPassengers::new: pc, position in bus_names
    pl,           \* health poller: pc, position in line, rounds begun, rtt
    ui,           \* ui: pc, position in the loads and in line, the list built
    visits        \* per passenger: the outcomes of the poller's visits so far

vars ==
    <<tally, rt_stats, error_set, tick_data, secs_data, mutex, ec, tc, sc,
      history, entry, oplog, pushed, stats, samples_in, st,
      bus_names, line, en, pl, ui, visits>>

app_vars ==
    <<tally, rt_stats, error_set, tick_data, secs_data, mutex, ec, tc, sc,
      history, entry, oplog, pushed>>

stats_vars == <<stats, samples_in, st>>

bus_vars == <<bus_names, line, en, pl, ui, visits>>

MutexNames == {"error_set", "tick_data", "secs_data"}

Drained == {"tick_counter", "secs_counter"}

\* Option<Duration>: None, Some(d).
None == <<>>
Some(d) == <<d>>
is_none(o) == o = <<>>
unwrap(o) == o[1]

\* ResponseStats::default()
ResponseStatsDefault ==
    [samples |-> 0, sum |-> 0, min |-> None, max |-> None, mean |-> None,
     variance |-> 0, std_dev |-> None]

\* App::new, and the workers before their first step.
AppInit ==
    /\ tally = [c \in CounterNames |-> 0]
    /\ rt_stats = [rate |-> 0, max |-> 0, mean |-> 0]
    /\ error_set = {}
    /\ tick_data = VecZeros(TickCapacity)
    /\ secs_data = <<>>
    /\ mutex = [m \in MutexNames |-> "free"]
    /\ ec = [pc |-> "await", item |-> [ok |-> TRUE, tag |-> "Other"], msg |-> ""]
    /\ tc = [pc |-> "idle", value |-> 0]
    /\ sc = [pc |-> "idle", value |-> 0, len |-> 0, mean |-> 0]
    /\ history = <<>>
    /\ entry = [c \in CounterNames |-> 0]
    /\ oplog = [c \in Drained |-> <<>>]
    /\ pushed = <<>>

\* The statistics of a passenger nobody feeds samples to.
StatsIdle ==
    /\ stats = ResponseStatsDefault
    /\ samples_in = <<>>
    /\ st = [pc |-> "done", fed |-> 0]

\* Arc::new(Mutex::new(BusPassenger { .. stats: ResponseStats::default() })):
\* the passenger of the bus name at position name of bus_names, its mutex
\* unlocked.  The display name read from the bus is not modelled apart from
\* the bus name it belongs to.
Passenger(name) ==
    [bus_name |-> name, stats |-> ResponseStatsDefault, mutex |-> "free"]

\* No passengers, and the enumeration, the poller and the ui not running.
BusIdle ==
    /\ bus_names = <<>>
    /\ line = <<>>
    /\ en = [pc |-> "returned", i |-> 0]
    /\ pl = [pc |-> "sleep", i |-> 0, round |-> 0, dur |-> 0]
    /\ ui = [pc |-> "idle", k |-> 0, i |-> 0, frames |-> 0,
             server_list |-> <<>>]
    /\ visits = <<>>

Init == AppInit /\ StatsIdle /\ BusIdle

(***************************************************************************)
(* The event consumer: while let Some(event) = events.next().await         *)
(* { app.on_event(event) }.                                                *)
(***************************************************************************)
\* events.next() yields an item: on_event is called with it.
\* (Variant: while let Some(Ok(event)), which leaves the loop at an Err.)
ec_next_until_err(items, max) ==
    /\ ec.pc = "await"
    /\ Len(history) < max
    /\ \E item \in items :
         /\ ec' = [pc |-> IF item.ok THEN "classify" ELSE "ended",
                   item |-> item, msg |-> ""]
         /\ history' = Append(history, item)
    /\ entry' = tally
    /\ UNCHANGED <<tally, rt_stats, error_set, tick_data, secs_data, mutex,
                   tc, sc, oplog, pushed, stats_vars, bus_vars>>
ec_next(items, max) ==
    /\ ec.pc = "await"
    /\ Len(history) < max
    /\ \E item \in items :
         /\ ec' = [pc |-> "classify", item |-> item, msg |-> ""]
         /\ history' = Append(history, item)
    /\ entry' = tally
    /\ UNCHANGED <<tally, rt_stats, error_set, tick_data, secs_data, mutex,
                   tc, sc, oplog, pushed, stats_vars, bus_vars>>

\* events.next() yields None: the loop ends.
ec_stream_end ==
    /\ ec.pc = "await"
    /\ ec' = [ec EXCEPT !.pc = "ended"]
    /\ UNCHANGED <<tally, rt_stats, error_set, tick_data, secs_data, mutex,
                   tc, sc, history, entry, oplog, pushed, stats_vars, bus_vars>>

\* The match of on_event: the increment of the item's arm.  The Err arm goes
\* on to format the error and to lock the error set.
\* (Variant: the Err arm without its increment of the error counter.)
ec_classify_err_uncounted ==
    /\ ec.pc = "classify"
    /\ tally' = IF ec.item.ok
                  THEN [tally EXCEPT ![CounterFor(ec.item)] = incr(@)]
                  ELSE tally
    /\ ec' = IF ec.item.ok
               THEN [ec EXCEPT !.pc = "tick_incr"]
               ELSE [ec EXCEPT !.pc = "lock", !.msg = Format(ec.item.tag)]
    /\ UNCHANGED <<rt_stats, error_set, tick_data, secs_data, mutex, tc, sc,
                   history, entry, oplog, pushed, stats_vars, bus_vars>>
\* (Variant: every arm goes on to lock the error set.)
ec_classify_locks ==
    /\ ec.pc = "classify"
    /\ tally' = [tally EXCEPT ![CounterFor(ec.item)] = incr(@)]
    /\ ec' = [ec EXCEPT !.pc = "lock",
                        !.msg = IF ec.item.ok THEN "" ELSE Format(ec.item.tag)]
    /\ UNCHANGED <<rt_stats, error_set, tick_data, secs_data, mutex, tc, sc,
                   history, entry, oplog, pushed, stats_vars, bus_vars>>
ec_classify ==
    /\ ec.pc = "classify"
    /\ tally' = [tally EXCEPT ![CounterFor(ec.item)] = incr(@)]
    /\ ec' = IF ec.item.ok
               THEN [ec EXCEPT !.pc = "tick_incr"]
               ELSE [ec EXCEPT !.pc = "lock", !.msg = Format(ec.item.tag)]
    /\ UNCHANGED <<rt_stats, error_set, tick_data, secs_data, mutex, tc, sc,
                   history, entry, oplog, pushed, stats_vars, bus_vars>>

\* self.error_set.lock(): waits until the mutex is free.
ec_lock ==
    /\ ec.pc = "lock"
    /\ mutex["error_set"] = "free"
    /\ mutex' = [mutex EXCEPT !["error_set"] = "events"]
    /\ ec' = [ec EXCEPT !.pc = "insert"]
    /\ UNCHANGED <<tally, rt_stats, error_set, tick_data, secs_data, tc, sc,
                   history, entry, oplog, pushed, stats_vars, bus_vars>>

\* if !set.contains(&msg) { set.insert(msg) }, and the guard dropped at the
\* end of the arm.
\* (Variant: the test inverted, inserting only a text already present.)
ec_insert_inverted ==
    /\ ec.pc = "insert"
    /\ error_set' = IF ec.msg \in error_set
                      THEN error_set \cup {ec.msg}
                      ELSE error_set
    /\ mutex' = [mutex EXCEPT !["error_set"] = "free"]
    /\ ec' = [ec EXCEPT !.pc = "tick_incr"]
    /\ UNCHANGED <<tally, rt_stats, tick_data, secs_data, tc, sc,
                   history, entry, oplog, pushed, stats_vars, bus_vars>>
\* (Variant: the guard of tick_data is taken while the guard of error_set is
\* held, and dropped with it.)
ec_insert_under_tick_data ==
    /\ ec.pc = "insert"
    /\ mutex["tick_data"] = "free"
    /\ error_set' = IF ec.msg \notin error_set
                      THEN error_set \cup {ec.msg}
                      ELSE error_set
    /\ mutex' = [mutex EXCEPT !["error_set"] = "free"]
    /\ ec' = [ec EXCEPT !.pc = "tick_incr"]
    /\ UNCHANGED <<tally, rt_stats, tick_data, secs_data, tc, sc,
                   history, entry, oplog, pushed, stats_vars, bus_vars>>
ec_insert ==
    /\ ec.pc = "insert"
    /\ error_set' = IF ec.msg \notin error_set
                      THEN error_set \cup {ec.msg}
                      ELSE error_set
    /\ mutex' = [mutex EXCEPT !["error_set"] = "free"]
    /\ ec' = [ec EXCEPT !.pc = "tick_incr"]
    /\ UNCHANGED <<tally, rt_stats, tick_data, secs_data, tc, sc,
                   history, entry, oplog, pushed, stats_vars, bus_vars>>

\* self.tally.tick_counter.incr()
ec_tick_incr ==
    /\ ec.pc = "tick_incr"
    /\ tally' = [tally EXCEPT !["tick_counter"] = incr(@)]
    /\ oplog' = [oplog EXCEPT !["tick_counter"] =
                                  Append(@, [op |-> "incr", ret |-> 0])]
    /\ ec' = [ec EXCEPT !.pc = "secs_incr"]
    /\ UNCHANGED <<rt_stats, error_set, tick_data, secs_data, mutex, tc, sc,
                   history, entry, pushed, stats_vars, bus_vars>>

\* self.tally.secs_counter.incr()
\* (Variant: the increment made for successful events only.)
ec_secs_incr_ok_only ==
    /\ ec.pc = "secs_incr"
    /\ tally' = [tally EXCEPT !["secs_counter"] =
                                  IF ec.item.ok THEN incr(@) ELSE @]
    /\ oplog' = [oplog EXCEPT !["secs_counter"] =
                                  IF ec.item.ok
                                    THEN Append(@, [op |-> "incr", ret |-> 0])
                                    ELSE @]
    /\ ec' = [ec EXCEPT !.pc = "total_incr"]
    /\ UNCHANGED <<rt_stats, error_set, tick_data, secs_data, mutex, tc, sc,
                   history, entry, pushed, stats_vars, bus_vars>>
ec_secs_incr ==
    /\ ec.pc = "secs_incr"
    /\ tally' = [tally EXCEPT !["secs_counter"] = incr(@)]
    /\ oplog' = [oplog EXCEPT !["secs_counter"] =
                                  Append(@, [op |-> "incr", ret |-> 0])]
    /\ ec' = [ec EXCEPT !.pc = "total_incr"]
    /\ UNCHANGED <<rt_stats, error_set, tick_data, secs_data, mutex, tc, sc,
                   history, entry, pushed, stats_vars, bus_vars>>

\* self.tally.total.incr(), and on_event returns.
ec_total_incr ==
    /\ ec.pc = "total_incr"
    /\ tally' = [tally EXCEPT !["total"] = incr(@)]
    /\ ec' = [ec EXCEPT !.pc = "await"]
    /\ UNCHANGED <<rt_stats, error_set, tick_data, secs_data, mutex, tc, sc,
                   history, entry, oplog, pushed, stats_vars, bus_vars>>

EventConsumer(items, max) ==
    \/ ec_next(items, max)
    \/ ec_stream_end
    \/ ec_classify
    \/ ec_lock
    \/ ec_insert
    \/ ec_tick_incr
    \/ ec_secs_incr
    \/ ec_total_incr

(***************************************************************************)
(* The tick consumer: run_app calls app.on_tick() once per elapsed tick.   *)
(***************************************************************************)
\* let value = self.tally.tick_counter.reset();
\* (Variant: the lifetime total drained in place of the per-tick counter.)
tc_reset_total(max) ==
    /\ tc.pc = "idle"
    /\ Len(pushed) < max
    /\ LET r == reset(tally["total"])
       IN  /\ tally' = [tally EXCEPT !["total"] = r.new]
           /\ tc' = [pc |-> "lock", value |-> r.ret]
           /\ oplog' = [oplog EXCEPT !["tick_counter"] =
                                         Append(@, [op |-> "reset", ret |-> r.ret])]
    /\ UNCHANGED <<rt_stats, error_set, tick_data, secs_data, mutex, ec, sc,
                   history, entry, pushed, stats_vars, bus_vars>>
tc_reset(max) ==
    /\ tc.pc = "idle"
    /\ Len(pushed) < max
    /\ LET r == reset(tally["tick_counter"])
       IN  /\ tally' = [tally EXCEPT !["tick_counter"] = r.new]
           /\ tc' = [pc |-> "lock", value |-> r.ret]
           /\ oplog' = [oplog EXCEPT !["tick_counter"] =
                                         Append(@, [op |-> "reset", ret |-> r.ret])]
    /\ UNCHANGED <<rt_stats, error_set, tick_data, secs_data, mutex, ec, sc,
                   history, entry, pushed, stats_vars, bus_vars>>

\* self.tick_data.lock(): waits until the mutex is free.
tc_lock ==
    /\ tc.pc = "lock"
    /\ mutex["tick_data"] = "free"
    /\ mutex' = [mutex EXCEPT !["tick_data"] = "tick"]
    /\ tc' = [tc EXCEPT !.pc = "rotate"]
    /\ UNCHANGED <<tally, rt_stats, error_set, tick_data, secs_data, ec, sc,
                   history, entry, oplog, pushed, stats_vars, bus_vars>>

\* tick_data.pop(); tick_data.insert(0, value); and the guard dropped as
\* on_tick returns.
tc_rotate ==
    /\ tc.pc = "rotate"
    /\ tick_data' = VecInsertFront(VecPop(tick_data), tc.value)
    /\ pushed' = Append(pushed, tc.value)
    /\ mutex' = [mutex EXCEPT !["tick_data"] = "free"]
    /\ tc' = [tc EXCEPT !.pc = "idle"]
    /\ UNCHANGED <<tally, rt_stats, error_set, secs_data, ec, sc,
                   history, entry, oplog, stats_vars, bus_vars>>

TickConsumer(max) ==
    \/ tc_reset(max)
    \/ tc_lock
    \/ tc_rotate

(***************************************************************************)
(* The second consumer: loop { each_second.tick().await; on_second() }.    *)
(***************************************************************************)
\* let value = self.tally.secs_counter.reset();
sc_reset(max) ==
    /\ sc.pc = "idle"
    /\ Len(secs_data) < max
    /\ LET r == reset(tally["secs_counter"])
       IN  /\ tally' = [tally EXCEPT !["secs_counter"] = r.new]
           /\ sc' = [sc EXCEPT !.pc = "max_load", !.value = r.ret]
           /\ oplog' = [oplog EXCEPT !["secs_counter"] =
                                         Append(@, [op |-> "reset", ret |-> r.ret])]
    /\ UNCHANGED <<rt_stats, error_set, tick_data, secs_data, mutex, ec, tc,
                   history, entry, pushed, stats_vars, bus_vars>>

\* if self.rt_stats.max.load() < value
\* (Variant: the comparison turned round.)
sc_max_load_inverted ==
    /\ sc.pc = "max_load"
    /\ sc' = [sc EXCEPT !.pc = IF load(rt_stats.max) > sc.value
                                 THEN "max_set" ELSE "rate_set"]
    /\ UNCHANGED <<tally, rt_stats, error_set, tick_data, secs_data, mutex,
                   ec, tc, history, entry, oplog, pushed, stats_vars, bus_vars>>
sc_max_load ==
    /\ sc.pc = "max_load"
    /\ sc' = [sc EXCEPT !.pc = IF load(rt_stats.max) < sc.value
                                 THEN "max_set" ELSE "rate_set"]
    /\ UNCHANGED <<tally, rt_stats, error_set, tick_data, secs_data, mutex,
                   ec, tc, history, entry, oplog, pushed, stats_vars, bus_vars>>

\* self.rt_stats.max.set(value)
sc_max_set ==
    /\ sc.pc = "max_set"
    /\ rt_stats' = [rt_stats EXCEPT !.max = set(@, sc.value).new]
    /\ sc' = [sc EXCEPT !.pc = "rate_set"]
    /\ UNCHANGED <<tally, error_set, tick_data, secs_data, mutex,
                   ec, tc, history, entry, oplog, pushed, stats_vars, bus_vars>>

\* self.rt_stats.rate.set(value)
sc_rate_set ==
    /\ sc.pc = "rate_set"
    /\ rt_stats' = [rt_stats EXCEPT !.rate = set(@, sc.value).new]
    /\ sc' = [sc EXCEPT !.pc = "add"]
    /\ UNCHANGED <<tally, error_set, tick_data, secs_data, mutex,
                   ec, tc, history, entry, oplog, pushed, stats_vars, bus_vars>>

\* self.tally.total_seconds.add(value)
sc_add ==
    /\ sc.pc = "add"
    /\ tally' = [tally EXCEPT !["total_seconds"] = add(@, sc.value).new]
    /\ sc' = [sc EXCEPT !.pc = "lock"]
    /\ UNCHANGED <<rt_stats, error_set, tick_data, secs_data, mutex,
                   ec, tc, history, entry, oplog, pushed, stats_vars, bus_vars>>

\* self.secs_data.lock(): waits until the mutex is free.
sc_lock ==
    /\ sc.pc = "lock"
    /\ mutex["secs_data"] = "free"
    /\ mutex' = [mutex EXCEPT !["secs_data"] = "second"]
    /\ sc' = [sc EXCEPT !.pc = "push"]
    /\ UNCHANGED <<tally, rt_stats, error_set, tick_data, secs_data,
                   ec, tc, history, entry, oplog, pushed, stats_vars, bus_vars>>

\* data.push(value); let len = data.len();
sc_push ==
    /\ sc.pc = "push"
    /\ secs_data' = VecPush(secs_data, sc.value)
    /\ sc' = [sc EXCEPT !.pc = "mean_load", !.len = Len(secs_data')]
    /\ UNCHANGED <<tally, rt_stats, error_set, tick_data, mutex,
                   ec, tc, history, entry, oplog, pushed, stats_vars, bus_vars>>

\* let mean = self.tally.total_seconds.load() / len as u64;
\* (Variant: the lifetime total loaded in place of total_seconds.)
sc_mean_load_total ==
    /\ sc.pc = "mean_load"
    /\ sc' = [sc EXCEPT !.pc = "mean_set",
                        !.mean = load(tally["total"]) \div sc.len]
    /\ UNCHANGED <<tally, rt_stats, error_set, tick_data, secs_data, mutex,
                   ec, tc, history, entry, oplog, pushed, stats_vars, bus_vars>>
sc_mean_load ==
    /\ sc.pc = "mean_load"
    /\ sc' = [sc EXCEPT !.pc = "mean_set",
                        !.mean = load(tally["total_seconds"]) \div sc.len]
    /\ UNCHANGED <<tally, rt_stats, error_set, tick_data, secs_data, mutex,
                   ec, tc, history, entry, oplog, pushed, stats_vars, bus_vars>>

\* self.rt_stats.mean.set(mean); and the guard dropped as on_second returns.
sc_mean_set ==
    /\ sc.pc = "mean_set"
    /\ rt_stats' = [rt_stats EXCEPT !.mean = set(@, sc.mean).new]
    /\ mutex' = [mutex EXCEPT !["secs_data"] = "free"]
    /\ sc' = [sc EXCEPT !.pc = "idle"]
    /\ UNCHANGED <<tally, error_set, tick_data, secs_data,
                   ec, tc, history, entry, oplog, pushed, stats_vars, bus_vars>>

SecondConsumer(max) ==
    \/ sc_reset(max)
    \/ sc_max_load
    \/ sc_max_set
    \/ sc_rate_set
    \/ sc_add
    \/ sc_lock
    \/ sc_push
    \/ sc_mean_load
    \/ sc_mean_set

(***************************************************************************)
(* Specifications of App.                                                  *)
(***************************************************************************)
\* The three workers together.
NextApp ==
    \/ EventConsumer(FewItems, MaxAppEvents)
    \/ TickConsumer(MaxAppTicks)
    \/ SecondConsumer(MaxAppSeconds)

SpecApp == Init /\ [][NextApp]_vars

\* The event consumer and the tick consumer, for more ticks than the tick
\* history has entries.  The two workers interleave freely until the tick
\* consumer has completed MaxEventTicks ticks; from then on the stream
\* delivers nothing more, and a tick begins only when no on_event call is in
\* progress.
EarlyTicks == Len(pushed) < MaxEventTicks

TickEventBudget == IF EarlyTicks THEN MaxTickEvents ELSE 0

TickBudget ==
    IF EarlyTicks \/ ec.pc \in {"await", "ended"}
      THEN TickCapacity + MaxExtraTicks
      ELSE 0

NextTick ==
    \/ EventConsumer(FewItems, TickEventBudget)
    \/ TickConsumer(TickBudget)

SpecTick == Init /\ [][NextTick]_vars

\* The event consumer alone, fed every kind of item.
NextEvents == EventConsumer(Items, MaxEvents)

SpecEvents == Init /\ [][NextEvents]_vars

(***************************************************************************)
(* The tallies after on_event (event consumer alone).                      *)
(***************************************************************************)
\* The category that each recognized counter stands for.
TagOf ==
    [mouse |-> "Mouse", keyboard |-> "Keyboard", focus |-> "Focus",
     window |-> "Window", document |-> "Document", object |-> "Object",
     terminal |-> "Terminal", cache |-> "Cache", listeners |-> "Listener",
     available |-> "Available"]

\* The number of delivered items that P holds of.
NumItems(P(_)) == Cardinality({i \in 1..Len(history) : P(history[i])})

\* No on_event call is in progress.
EcQuiet == ec.pc \in {"await", "ended"}

\* C1: once every delivered item is processed, each recognized category
\* counter holds the number of successful events of its kind, other_event the
\* number of successful events of no recognized kind, error the number of
\* failed items; and the last on_event call raised exactly one of the twelve
\* counters, by exactly 1.
C1_TalliesMatchItems ==
    EcQuiet =>
      /\ \A c \in DOMAIN TagOf :
           LET OfKind(h) == h.ok /\ h.tag = TagOf[c]
           IN  tally[c] = NumItems(OfKind)
      /\ LET Uncategorized(h) == h.ok /\ h.tag \notin Recognized
         IN  tally["other_event"] = NumItems(Uncategorized)
      /\ LET Failed(h) == ~h.ok
         IN  tally["error"] = NumItems(Failed)
      /\ history # <<>> =>
           \E c \in Categories :
             /\ tally[c] = entry[c] + 1
             /\ \A d \in Categories \ {c} : tally[d] = entry[d]

\* An event of a recognized kind, an uncategorized event and a failed item
\* have all been processed.
C1_Witness ==
    /\ ec.pc = "await"
    /\ Len(history) = MaxEvents
    /\ \E i, j, k \in 1..Len(history) :
         /\ history[i] = [ok |-> TRUE, tag |-> "Cache"]
         /\ history[j] = [ok |-> TRUE, tag |-> "Other"]
         /\ ~history[k].ok

\* C2: with no drain in between, after n on_event calls (successful or
\* failed items alike) the per-tick counter, the per-second counter and the
\* lifetime total have each grown by n, the last call by exactly 1.
C2_GlobalsCountCalls ==
    EcQuiet =>
      \A g \in {"tick_counter", "secs_counter", "total"} :
        /\ tally[g] = Len(history)
        /\ history # <<>> => tally[g] = entry[g] + 1

\* Calls with a successful and with a failed item have completed.
C2_Witness ==
    /\ ec.pc = "await"
    /\ Len(history) = MaxEvents
    /\ \E i, j \in 1..Len(history) : history[i].ok /\ ~history[j].ok

\* C3: once every delivered item is processed, the error set is exactly the
\* set of the texts of the failed items (so a repeated text and a successful
\* event add nothing); its size never exceeds the error counter.
C3_ErrorSetIsDistinctTexts ==
    /\ EcQuiet =>
         error_set = {Format(history[i].tag) :
                        i \in {j \in 1..Len(history) : ~history[j].ok}}
    /\ Cardinality(error_set) <= tally["error"]

\* The same error text has been processed twice.
C3_Witness ==
    /\ ec.pc = "await"
    /\ tally["error"] = 2
    /\ Cardinality(error_set) = 1

(***************************************************************************)
(* ResponseStats and update_rtt_stats.  Durations are whole nanoseconds.   *)
(***************************************************************************)
\* f64::sqrt followed by f64::round, of a whole number v: the whole number
\* nearest to the square root (r - 1/2 < sqrt(v) < r + 1/2; a square root of
\* a whole number is never half-way between two whole numbers).
RoundSqrt(v) ==
    CHOOSE r \in 0..v : \/ r = 0 /\ v = 0
                        \/ r > 0 /\ r * r - r < v /\ v <= r * r + r

\* The fields update_rtt_stats has assigned when it reaches the subtraction:
\* min, max, sum, samples and mean (Duration / u32 truncates).
UpToMean(s, res) ==
    LET sum1 == s.sum + res
        samples1 == s.samples + 1
    IN  [s EXCEPT
           !.min = IF is_none(s.min) \/ unwrap(s.min) > res
                     THEN Some(res) ELSE s.min,
           !.max = IF is_none(s.max) \/ unwrap(s.max) < res
                     THEN Some(res) ELSE s.max,
           !.sum = sum1,
           !.samples = samples1,
           !.mean = Some(sum1 \div samples1)]

\* res - mean: Duration's Sub panics ("overflow when subtracting durations")
\* when the result would be negative.
SubOverflows(s, res) == res < unwrap(UpToMean(s, res).mean)

\* The fields update_rtt_stats assigns after the subtraction, on the record
\* s1 it has reached there: variance and std_dev.
FromMean(s1, res) ==
    LET diff == res - unwrap(s1.mean)
        variance1 == s1.variance + diff * diff
    IN  [s1 EXCEPT !.variance = variance1,
                   !.std_dev = Some(RoundSqrt(variance1))]

\* update_rtt_stats(res) on the record s: the record it leaves, and whether
\* it panicked.  A panic at the subtraction leaves the fields assigned before
\* it and neither variance nor std_dev.
\* (Variant: the mean taken from the sum before the sample is added.)
update_rtt_stats_stale_mean(s, res) ==
    LET s1 == [UpToMean(s, res) EXCEPT
                 !.mean = Some(s.sum \div (s.samples + 1))]
        diff == res - unwrap(s1.mean)
        variance1 == s.variance + diff * diff
    IN  IF res < unwrap(s1.mean)
          THEN [rec |-> s1, panicked |-> TRUE]
          ELSE [rec |-> [s1 EXCEPT !.variance = variance1,
                                   !.std_dev = Some(RoundSqrt(variance1))],
                panicked |-> FALSE]
update_rtt_stats(s, res) ==
    LET s1 == UpToMean(s, res)
        diff == res - unwrap(s1.mean)
        variance1 == s.variance + diff * diff
    IN  IF SubOverflows(s, res)
          THEN [rec |-> s1, panicked |-> TRUE]
          ELSE [rec |-> [s1 EXCEPT !.variance = variance1,
                                   !.std_dev = Some(RoundSqrt(variance1))],
                panicked |-> FALSE]

SampleValues == 0..MaxSample

\* A fresh record and a sequence of 1..MaxSamples durations to feed to it.
InitStats ==
    /\ AppInit
    /\ stats = ResponseStatsDefault
    /\ samples_in \in UNION {[1..n -> SampleValues] : n \in 1..MaxSamples}
    /\ st = [pc |-> "run", fed |-> 0]
    /\ BusIdle

\* guard.update_rtt_stats(dur) with the next duration.  A panic ends the
\* task that feeds the record: no later sample reaches it.
st_update ==
    /\ st.pc = "run"
    /\ LET r == update_rtt_stats(stats, samples_in[st.fed + 1])
       IN  /\ stats' = r.rec
           /\ st' = [pc |-> IF r.panicked THEN "panicked"
                            ELSE IF st.fed + 1 = Len(samples_in) THEN "done"
                            ELSE "run",
                     fed |-> st.fed + 1]
    /\ UNCHANGED <<app_vars, samples_in, bus_vars>>

NextStats == st_update

SpecStats == InitStats /\ [][NextStats]_vars

RECURSIVE SeqSum(_)
SeqSum(q) == IF q = <<>> THEN 0 ELSE Head(q) + SeqSum(Tail(q))

SeqMin(q) == CHOOSE x \in {q[i] : i \in 1..Len(q)} : \A i \in 1..Len(q) : x <= q[i]

SeqMax(q) == CHOOSE x \in {q[i] : i \in 1..Len(q)} : \A i \in 1..Len(q) : x >= q[i]

\* The feeding of samples_in has ended.
StatsEnded == st.pc \in {"done", "panicked"}

\* C5: when a sequence of n >= 1 samples has been fed to a fresh record, the
\* record has samples = n, min the smallest sample, max the largest, sum the
\* sum of the samples, and min <= mean <= max.
C5_SummaryOfAllSamples ==
    StatsEnded =>
      /\ stats.samples = Len(samples_in)
      /\ stats.min = Some(SeqMin(samples_in))
      /\ stats.max = Some(SeqMax(samples_in))
      /\ stats.sum = SeqSum(samples_in)
      /\ unwrap(stats.min) <= unwrap(stats.mean)
      /\ unwrap(stats.mean) <= unwrap(stats.max)

\* C6: update_rtt_stats completes for every sample, also for a sample smaller
\* than the mean computed after adding it (it never aborts on the
\* subtraction).
C6_UpdateNeverAborts == st.pc # "panicked"

\* C7: a single sample d fed to a fresh record gives min = max = mean = d,
\* samples = 1 and std_dev = 0.
C7_SingleSample ==
    st.fed = 1 =>
      /\ st.pc # "panicked"
      /\ stats.min = Some(samples_in[1])
      /\ stats.max = Some(samples_in[1])
      /\ stats.mean = Some(samples_in[1])
      /\ stats.samples = 1
      /\ stats.std_dev = Some(0)

\* One sample, the largest, has been fed.
C7_Witness == st.fed = 1 /\ samples_in[1] = MaxSample /\ stats.samples = 1

\* round(sqrt(a / b)) for whole numbers a and b > 0: the r with
\* r - 1/2 <= sqrt(a / b) < r + 1/2.
RoundSqrtRatio(a, b) ==
    CHOOSE r \in 0..a : \/ r = 0 /\ 4 * a < b
                        \/ /\ r > 0
                           /\ (2 * r - 1) * (2 * r - 1) * b <= 4 * a
                           /\ 4 * a < (2 * r + 1) * (2 * r + 1) * b

\* C8: after every completed update_rtt_stats call, std_dev is the rounded
\* square root of the accumulated sum of squared deviations divided by the
\* sample count.
C8_StdDevDividesByCount ==
    (st.fed >= 1 /\ st.pc # "panicked") =>
      stats.std_dev = Some(RoundSqrtRatio(stats.variance, stats.samples))

(***************************************************************************)
(* The drained counters under interleaving (the three workers together).   *)
(***************************************************************************)
\* The number of incr calls in log after the last reset before position i.
IncrsSinceReset(log, i) ==
    LET resets == {k \in 1..(i - 1) : log[k].op = "reset"}
        last == IF resets = {} THEN 0
                ELSE CHOOSE k \in resets : \A m \in resets : m <= k
    IN  Cardinality({j \in (last + 1)..(i - 1) : log[j].op = "incr"})

NumIncrs(log) == Cardinality({j \in 1..Len(log) : log[j].op = "incr"})

RECURSIVE SumReturned(_)
SumReturned(log) ==
    IF log = <<>> THEN 0 ELSE Head(log).ret + SumReturned(Tail(log))

\* The value on_tick (on_second) has read and not yet stored in its history.
TickInHand == IF tc.pc = "idle" THEN 0 ELSE tc.value

SecondInHand ==
    IF sc.pc \in {"max_load", "max_set", "rate_set", "add", "lock", "push"}
      THEN sc.value ELSE 0

\* C4: for the per-tick and the per-second counter, under every
\* interleaving of incr and reset: each reset returns the number of
\* increments since the previous reset; a load with no increment since the
\* last reset returns 0 (in general, the increments since the last reset);
\* the values returned by reset plus the current value add up to the number
\* of increments, so that every increment is in exactly one window of the
\* tick history and of the per-second history, in the value a consumer has
\* in hand, or still in the counter.
C4_ResetReturnsWindow ==
    /\ \A c \in Drained :
         LET log == oplog[c]
         IN  /\ \A i \in 1..Len(log) :
                  log[i].op = "reset" => log[i].ret = IncrsSinceReset(log, i)
             /\ load(tally[c]) = IncrsSinceReset(log, Len(log) + 1)
             /\ SumReturned(log) + load(tally[c]) = NumIncrs(log)
    /\ SeqSum(pushed) + TickInHand + tally["tick_counter"]
         = NumIncrs(oplog["tick_counter"])
    /\ SeqSum(secs_data) + SecondInHand + tally["secs_counter"]
         = NumIncrs(oplog["secs_counter"])

\* The per-second counter was incremented, reset, incremented and reset
\* again.
C4_Witness ==
    oplog["secs_counter"] =
      <<[op |-> "incr", ret |-> 0], [op |-> "reset", ret |-> 1],
        [op |-> "incr", ret |-> 0], [op |-> "reset", ret |-> 1]>>

(***************************************************************************)
(* The tick history (event consumer and tick consumer).                    *)
(***************************************************************************)
\* C9: the tick history never exceeds its capacity: whatever the number of
\* on_tick calls, it has exactly the TickCapacity entries it began with.
C9_TickHistoryLength == Len(tick_data) = TickCapacity

\* More on_tick calls than the history has entries have completed.
C9_Witness == Len(pushed) = TickCapacity + 1 /\ tc.pc = "idle"

\* The values returned by the resets in log, in order.
RECURSIVE Returned(_)
Returned(log) ==
    IF log = <<>> THEN <<>>
    ELSE IF Head(log).op = "reset" THEN <<Head(log).ret>> \o Returned(Tail(log))
    ELSE Returned(Tail(log))

\* C10: the values on_tick puts into the history are those its resets of the
\* per-tick counter returned, in order; the history holds the last
\* TickCapacity of them, newest first (index 0 of the Vec is tick_data[1]),
\* ahead of what is left of the initial zeros: each on_tick puts its value
\* at the front, shifts the others back by one and drops the last.
C10_TickHistoryNewestFirst ==
    /\ pushed \o (IF tc.pc = "idle" THEN <<>> ELSE <<tc.value>>)
         = Returned(oplog["tick_counter"])
    /\ \A i \in 1..TickCapacity :
         tick_data[i] = IF i <= Len(pushed)
                          THEN pushed[Len(pushed) - i + 1]
                          ELSE 0

\* After capacity + 1 on_tick calls the value 1 pushed first is gone.
C10_Witness ==
    /\ Len(pushed) = TickCapacity + 1
    /\ pushed[1] = 1
    /\ \A i \in 1..Len(tick_data) : tick_data[i] # 1

(***************************************************************************)
(* The rate statistics of on_second (the three workers together).          *)
(***************************************************************************)
\* The step in which an on_second call returns.
SecondReturns == sc.pc = "mean_set" /\ sc'.pc = "idle"

\* C11, as claimed: when an on_second call returns, the running mean is the
\* lifetime total counter divided by the number of seconds observed,
\* whatever the event consumer did meanwhile.
C11_MeanOfLifetimeTotal ==
    [][SecondReturns =>
         rt_stats'.mean = tally'["total"] \div Len(secs_data')]_vars

\* C11, amended: between on_second calls the running mean is the
\* total_seconds counter, which is the sum of the per-second history,
\* divided by the length of that history.
C11_MeanOfTotalSeconds ==
    (sc.pc = "idle" /\ Len(secs_data) >= 1) =>
      /\ tally["total_seconds"] = SeqSum(secs_data)
      /\ rt_stats.mean = tally["total_seconds"] \div Len(secs_data)

\* Two seconds were observed, with a mean of one event per second.
C11_Witness ==
    /\ sc.pc = "idle"
    /\ Len(secs_data) = 2
    /\ rt_stats.mean = 1

\* C12: when an on_second call has returned, the running peak is the largest
\* entry of the per-second history and the last rate is its newest entry; no
\* step ever lowers the peak.
C12_PeakAndRate ==
    [][/\ rt_stats'.max >= rt_stats.max
       /\ (sc'.pc = "idle" /\ Len(secs_data') >= 1) =>
            /\ rt_stats'.max = SeqMax(secs_data')
            /\ rt_stats'.rate = secs_data'[Len(secs_data')]]_vars

\* A second with one event was followed by a second with none.
C12_Witness ==
    /\ sc.pc = "idle"
    /\ secs_data = <<1, 0>>
    /\ rt_stats.max = 1
    /\ rt_stats.rate = 0

(***************************************************************************)
(* The health poller: every two seconds, one visit to each passenger of    *)
(* the line, 20 ms apart.                                                  *)
(***************************************************************************)
\* The durations a probe that is answered can measure.
Rtts == {0, MaxRtt}

Servers == 1..Len(line)

\* The end of the body of `for server in ..`: the next passenger, or the
\* end of the round.
NextServer ==
    IF pl.i < Len(line) THEN [pl EXCEPT !.pc = "visit", !.i = @ + 1, !.dur = 0]
                        ELSE [pl EXCEPT !.pc = "sleep", !.i = 0, !.dur = 0]

Visited(i, outcome) == [visits EXCEPT ![i] = @ \cup {outcome}]

\* every_other_second.tick().await; for server in app_clone.servers.bus.iter()
pl_round(max) ==
    /\ pl.pc = "sleep"
    /\ pl.round < max
    /\ pl' = IF Len(line) = 0
               THEN [pl EXCEPT !.round = @ + 1]
               ELSE [pl EXCEPT !.pc = "visit", !.i = 1, !.round = @ + 1]
    /\ UNCHANGED <<app_vars, stats_vars, bus_names, line, en, ui, visits>>

\* in_between.tick().await;
\* let Ok(mut guard) = server.try_lock() else { continue; };
\* (Variant: server.lock(), which waits for the mutex.)
pl_visit_lock ==
    /\ pl.pc = "visit"
    /\ line[pl.i].mutex = "free"
    /\ line' = [line EXCEPT ![pl.i].mutex = "poller"]
    /\ pl' = [pl EXCEPT !.pc = "probe"]
    /\ UNCHANGED <<app_vars, stats_vars, bus_names, en, ui, visits>>
pl_visit ==
    /\ pl.pc = "visit"
    /\ IF line[pl.i].mutex = "free"
         THEN /\ line' = [line EXCEPT ![pl.i].mutex = "poller"]
              /\ pl' = [pl EXCEPT !.pc = "probe"]
              /\ UNCHANGED visits
         ELSE /\ pl' = NextServer
              /\ visits' = Visited(pl.i, "skipped")
              /\ UNCHANGED line
    /\ UNCHANGED <<app_vars, stats_vars, bus_names, en, ui>>

\* guard.acquire_rtt(): get_role answered Ok, after d.
pl_acquire_rtt_some(d) ==
    /\ pl.pc = "probe"
    /\ pl' = [pl EXCEPT !.pc = "update", !.dur = d]
    /\ visits' = Visited(pl.i, "ok")
    /\ UNCHANGED <<app_vars, stats_vars, bus_names, line, en, ui>>

\* guard.acquire_rtt(): get_role answered Err, acquire_rtt returns None; the
\* guard is dropped at the end of the loop body.
\* (Variant: the None taken as a sample of zero duration.)
pl_acquire_rtt_none_as_zero ==
    /\ pl.pc = "probe"
    /\ pl' = [pl EXCEPT !.pc = "update", !.dur = 0]
    /\ visits' = Visited(pl.i, "err")
    /\ UNCHANGED <<app_vars, stats_vars, bus_names, line, en, ui>>
pl_acquire_rtt_none ==
    /\ pl.pc = "probe"
    /\ line' = [line EXCEPT ![pl.i].mutex = "free"]
    /\ pl' = NextServer
    /\ visits' = Visited(pl.i, "err")
    /\ UNCHANGED <<app_vars, stats_vars, bus_names, en, ui>>

\* guard.acquire_rtt(): get_role is never answered.  block_on(get_role())
\* has no time limit: acquire_rtt does not return, the guard stays.
pl_acquire_rtt_pending ==
    /\ pl.pc = "probe"
    /\ pl' = [pl EXCEPT !.pc = "pending"]
    /\ visits' = Visited(pl.i, "pending")
    /\ UNCHANGED <<app_vars, stats_vars, bus_names, line, en, ui>>

\* guard.update_rtt_stats(dur), up to the subtraction: min, max, sum,
\* samples and mean are assigned, variance and std_dev are not yet.  A panic
\* at the subtraction ends the poller's task and drops the guard while
\* panicking, which poisons the std::sync::Mutex.
pl_update ==
    /\ pl.pc = "update"
    /\ LET panicked == SubOverflows(line[pl.i].stats, pl.dur)
       IN  /\ line' = [line EXCEPT
                         ![pl.i].stats = UpToMean(@, pl.dur),
                         ![pl.i].mutex = IF panicked THEN "poisoned" ELSE @]
           /\ pl' = [pl EXCEPT !.pc = IF panicked THEN "panicked"
                                                  ELSE "variance"]
    /\ UNCHANGED <<app_vars, stats_vars, bus_names, en, ui, visits>>

\* The rest of update_rtt_stats: variance and std_dev are assigned; the guard
\* is dropped at the end of the loop body.
pl_update_variance ==
    /\ pl.pc = "variance"
    /\ line' = [line EXCEPT ![pl.i].stats = FromMean(@, pl.dur),
                            ![pl.i].mutex = "free"]
    /\ pl' = NextServer
    /\ UNCHANGED <<app_vars, stats_vars, bus_names, en, ui, visits>>

Poller(max) ==
    \/ pl_round(max)
    \/ pl_visit
    \/ \E d \in Rtts : pl_acquire_rtt_some(d)
    \/ pl_acquire_rtt_none
    \/ pl_acquire_rtt_pending
    \/ pl_update
    \/ pl_update_variance

(***************************************************************************)
(* ui: one frame of the terminal.  run_app draws a frame and then, when a   *)
(* tick is due, calls on_tick, on the same thread.                         *)
(***************************************************************************)
\* The sixteen counters a frame shows, in the order ui loads them.
UiLoads ==
    <<"rate", "max", "mean", "total", "keyboard", "mouse", "focus", "window",
      "object", "document", "terminal", "available", "listeners", "cache",
      "other_event", "error">>

RtNames == {"rate", "max", "mean"}

\* ListItem::new(format!("Server contended for lock"))
Contended == [contended |-> TRUE, name |-> 0, stats |-> ResponseStatsDefault]

\* ListItem::new(format!("{}:\n\t{}\n", guard.accessible_name, guard.stats))
Formatted(passenger) ==
    [contended |-> FALSE, name |-> passenger.bus_name,
     stats |-> passenger.stats]

\* The end of the closure of server_stats.iter().map(..): the next
\* passenger, or the list is collected.
UiNextServer ==
    IF ui.i < Len(line) THEN [pc |-> "servers", i |-> ui.i + 1]
                        ELSE [pc |-> "render", i |-> ui.i]

\* terminal.draw(|f| ui(f, &app)) ... let tick_data =
\* app.tick_data.lock().unwrap();  The guard lives to the end of ui.
ui_tick_data(max) ==
    /\ ui.pc = "idle"
    /\ ui.frames < max
    /\ tc.pc = "idle"
    /\ mutex["tick_data"] = "free"
    /\ mutex' = [mutex EXCEPT !["tick_data"] = "ui"]
    /\ ui' = [ui EXCEPT !.pc = "loads", !.k = 1]
    /\ UNCHANGED <<tally, rt_stats, error_set, tick_data, secs_data, ec, tc,
                   sc, history, entry, oplog, pushed, stats_vars, bus_names,
                   line, en, pl, visits>>

\* Cell::from(app.rt_stats.rate.load().to_string()) and the fifteen like it.
\* The cell is a local of ui that goes to the terminal; the model keeps only
\* which counter is loaded next.
\* (Variant: reset() in place of load().)
ui_load_resets ==
    /\ ui.pc = "loads"
    /\ LET c == UiLoads[ui.k]
           r == IF c \in RtNames THEN reset(rt_stats[c]) ELSE reset(tally[c])
       IN  /\ ui' = [ui EXCEPT !.k = @ + 1,
                               !.pc = IF ui.k = Len(UiLoads) THEN "error_set"
                                                             ELSE "loads"]
           /\ IF c \in RtNames
                THEN /\ rt_stats' = [rt_stats EXCEPT ![c] = r.new]
                     /\ UNCHANGED tally
                ELSE /\ tally' = [tally EXCEPT ![c] = r.new]
                     /\ UNCHANGED rt_stats
    /\ UNCHANGED <<error_set, tick_data, secs_data, mutex, ec, tc,
                   sc, history, entry, oplog, pushed, stats_vars, bus_names,
                   line, en, pl, visits>>
ui_load ==
    /\ ui.pc = "loads"
    /\ LET c == UiLoads[ui.k]
           value == IF c \in RtNames THEN load(rt_stats[c]) ELSE load(tally[c])
       IN  /\ value \in Nat
           /\ ui' = [ui EXCEPT !.k = @ + 1,
                               !.pc = IF ui.k = Len(UiLoads) THEN "error_set"
                                                             ELSE "loads"]
    /\ UNCHANGED <<tally, rt_stats, error_set, tick_data, secs_data, mutex,
                   ec, tc, sc, history, entry, oplog, pushed, stats_vars,
                   bus_names, line, en, pl, visits>>

\* let binding = app.error_set.lock().unwrap();  The guard lives to the end
\* of ui.
ui_error_set ==
    /\ ui.pc = "error_set"
    /\ mutex["error_set"] = "free"
    /\ mutex' = [mutex EXCEPT !["error_set"] = "ui"]
    /\ ui' = [ui EXCEPT !.pc = IF Len(line) = 0 THEN "render" ELSE "servers",
                        !.i = 1]
    /\ UNCHANGED <<tally, rt_stats, error_set, tick_data, secs_data, ec, tc,
                   sc, history, entry, oplog, pushed, stats_vars, bus_names,
                   line, en, pl, visits>>

\* if let Ok(guard) = server.try_lock() { .. } else {
\* ListItem::new(format!("Server contended for lock")) }
\* (Variant: the guard of a poisoned mutex taken out of the error and used.)
ui_try_lock_into_inner ==
    /\ ui.pc = "servers"
    /\ IF line[ui.i].mutex \in {"free", "poisoned"}
         THEN /\ line' = [line EXCEPT ![ui.i].mutex = "ui"]
              /\ ui' = [ui EXCEPT !.pc = "format"]
         ELSE /\ ui' = [ui EXCEPT !.pc = UiNextServer.pc,
                                  !.i = UiNextServer.i,
                                  !.server_list = Append(@, Contended)]
              /\ UNCHANGED line
    /\ UNCHANGED <<app_vars, stats_vars, bus_names, en, pl, visits>>
\* (Variant: server.lock(), which waits for the mutex.)
ui_try_lock_waits ==
    /\ ui.pc = "servers"
    /\ line[ui.i].mutex = "free"
    /\ line' = [line EXCEPT ![ui.i].mutex = "ui"]
    /\ ui' = [ui EXCEPT !.pc = "format"]
    /\ UNCHANGED <<app_vars, stats_vars, bus_names, en, pl, visits>>
ui_try_lock ==
    /\ ui.pc = "servers"
    /\ IF line[ui.i].mutex = "free"
         THEN /\ line' = [line EXCEPT ![ui.i].mutex = "ui"]
              /\ ui' = [ui EXCEPT !.pc = "format"]
         ELSE /\ ui' = [ui EXCEPT !.pc = UiNextServer.pc,
                                  !.i = UiNextServer.i,
                                  !.server_list = Append(@, Contended)]
              /\ UNCHANGED line
    /\ UNCHANGED <<app_vars, stats_vars, bus_names, en, pl, visits>>

\* ListItem::new(format!("{}:\n\t{}\n", guard.accessible_name, guard.stats));
\* the guard is dropped at the end of the if.
ui_format ==
    /\ ui.pc = "format"
    /\ ui' = [ui EXCEPT !.pc = UiNextServer.pc,
                        !.i = UiNextServer.i,
                        !.server_list = Append(@, Formatted(line[ui.i]))]
    /\ line' = [line EXCEPT ![ui.i].mutex = "free"]
    /\ UNCHANGED <<app_vars, stats_vars, bus_names, en, pl, visits>>

\* f.render_widget(..) five times; ui returns and drops its cells and
\* lists and the guards of tick_data and error_set.
ui_render ==
    /\ ui.pc = "render"
    /\ mutex' = [mutex EXCEPT !["tick_data"] = "free", !["error_set"] = "free"]
    /\ ui' = [pc |-> "idle", k |-> 0, i |-> 0, frames |-> ui.frames + 1,
              server_list |-> <<>>]
    /\ UNCHANGED <<tally, rt_stats, error_set, tick_data, secs_data, ec, tc,
                   sc, history, entry, oplog, pushed, stats_vars, bus_names,
                   line, en, pl, visits>>

Ui(max) ==
    \/ ui_tick_data(max)
    \/ ui_load
    \/ ui_error_set
    \/ ui_try_lock
    \/ ui_format
    \/ ui_render

(***************************************************************************)
(* The poller alone, and the poller beside the ui, over a line of          *)
(* NumPassengers passengers.                                               *)
(***************************************************************************)
InitPoll ==
    /\ AppInit
    /\ StatsIdle
    /\ bus_names = <<>>
    /\ line = [i \in 1..NumPassengers |-> Passenger(i)]
    /\ en = [pc |-> "returned", i |-> 0]
    /\ pl = [pc |-> "sleep", i |-> 0, round |-> 0, dur |-> 0]
    /\ ui = [pc |-> "idle", k |-> 0, i |-> 0, frames |-> 0,
             server_list |-> <<>>]
    /\ visits = [i \in 1..NumPassengers |-> {}]

NextPoller == Poller(MaxRounds)

SpecPoller == InitPoll /\ [][NextPoller]_vars

NextPoll == Poller(MaxUiRounds) \/ Ui(MaxFrames)

SpecPoll == InitPoll /\ [][NextPoll]_vars

(***************************************************************************)
(* Claims about the health poller and the ui.                              *)
(***************************************************************************)
\* The step records a visit that gave no sample: the lock was held, the
\* probe was answered with an error, or it is not answered at all.
VisitWithoutSample ==
    \E i \in Servers :
        /\ visits'[i] # visits[i]
        /\ visits'[i] \ visits[i] \subseteq {"skipped", "err", "pending"}

C14_PollerSkipsHeldLock ==
    (pl.pc = "visit" /\ line[pl.i].mutex # "free") =>
        ENABLED (/\ pl_visit
                 /\ pl' = NextServer
                 /\ line' = line)

C14_Witness ==
    /\ "skipped" \in visits[1]
    /\ line[1].mutex = "ui"
    /\ line[1].stats = ResponseStatsDefault
    /\ pl.pc = "probe"
    /\ pl.i = 2

\* C15: a probe that is not answered is abandoned: whenever the poller is
\* in such a probe it has a step that releases the passenger's mutex, after
\* which it goes on with the rest of the round.
C15_PendingProbeIsAbandoned ==
    pl.pc = "pending" =>
        ENABLED (/\ Poller(MaxRounds)
                 /\ line'[pl.i].mutex = "free")

\* C16: the poller's task has not ended, whatever the probes of the
\* passengers returned and whatever samples the statistics were given.
C16_PollerKeepsRunning == pl.pc # "panicked"

\* C18: when ui comes to a passenger whose mutex is not free, its step is
\* enabled (it does not wait), and that step adds the placeholder to the
\* list and goes on to the next passenger, the line unchanged.
C18_UiRendersPlaceholder ==
    (ui.pc = "servers" /\ line[ui.i].mutex # "free") =>
        ENABLED (/\ ui_try_lock
                 /\ ui'.server_list = Append(ui.server_list, Contended)
                 /\ ui'.pc = UiNextServer.pc
                 /\ ui'.i = UiNextServer.i
                 /\ line' = line)

C18_Witness ==
    /\ ui.pc = "render"
    /\ pl.pc = "pending"
    /\ pl.i = 1
    /\ ui.server_list = <<Contended, Formatted(line[2])>>

(***************************************************************************)
(* BusPassengers::new: the passengers among the names on the bus.          *)
(***************************************************************************)
\* The calls made for a name, in the order new makes them.
Steps == {"accessible_proxy", "get_application", "name", "application_proxy"}

\* A name list_names returns: whether it starts with 'x', and the first
\* call that fails for it, if any.  Names that do not start with 'x' get no
\* call.
BusNames ==
    {[x |-> FALSE, fails |-> "none"]} \cup
    {[x |-> TRUE, fails |-> f] : f \in Steps \cup {"none"}}

\* let bus_names = dbus_proxy.list_names().await?; let mut line = ..
InitEnum ==
    /\ AppInit
    /\ StatsIdle
    /\ bus_names \in UNION {[1..n -> BusNames] : n \in 0..MaxNames}
    /\ line = <<>>
    /\ en = [pc |-> "for", i |-> 0]
    /\ pl = [pc |-> "sleep", i |-> 0, round |-> 0, dur |-> 0]
    /\ ui = [pc |-> "idle", k |-> 0, i |-> 0, frames |-> 0,
             server_list |-> <<>>]
    /\ visits = <<>>

\* for bus_name in bus_names { if bus_name.starts_with('x') { .. } }
en_for ==
    /\ en.pc = "for"
    /\ en' = IF en.i = Len(bus_names)
               THEN [en EXCEPT !.pc = "shrink"]
               ELSE [pc |-> IF bus_names[en.i + 1].x THEN "accessible_proxy"
                                                     ELSE "for",
                     i |-> en.i + 1]
    /\ UNCHANGED <<app_vars, stats_vars, bus_names, line, pl, ui, visits>>

\* One of the four calls for the name: `continue` when it fails, the next
\* call (after the last one, the push) when it succeeds.
en_call(step, next) ==
    /\ en.pc = step
    /\ en' = [en EXCEPT !.pc = IF bus_names[en.i].fails = step THEN "for"
                                                               ELSE next]
    /\ UNCHANGED <<app_vars, stats_vars, bus_names, line, pl, ui, visits>>

\* ProxyBuilder::new(conn) .. .build().await;
\* if accessible_proxy.is_err() { continue; }
\* The interface and the path are constants and the destination is a bus
\* name already: the three `?` before build() do not return.
en_accessible_proxy == en_call("accessible_proxy", "get_application")

\* if accessible_proxy.get_application().await.is_err() { continue; }
en_get_application == en_call("get_application", "name")

\* let Ok(accessible_name) = accessible_proxy.name().await else { continue; }
\* (Variant: the result of name() not looked at.)
en_name_unchecked ==
    /\ en.pc = "name"
    /\ en' = [en EXCEPT !.pc = "application_proxy"]
    /\ UNCHANGED <<app_vars, stats_vars, bus_names, line, pl, ui, visits>>
en_name == en_call("name", "application_proxy")

\* let Ok(application_proxy) = zbus::ProxyBuilder::new(conn) .. .build()
\* .await else { continue; }
en_application_proxy == en_call("application_proxy", "push")

\* let passenger = BusPassenger { .. stats: ResponseStats::default() };
\* line.push(Arc::new(Mutex::new(passenger)));
en_push ==
    /\ en.pc = "push"
    /\ line' = Append(line, Passenger(en.i))
    /\ visits' = Append(visits, {})
    /\ en' = [en EXCEPT !.pc = "for"]
    /\ UNCHANGED <<app_vars, stats_vars, bus_names, pl, ui>>

\* line.shrink_to_fit(); Ok(BusPassengers { line })
en_return ==
    /\ en.pc = "shrink"
    /\ en' = [en EXCEPT !.pc = "returned"]
    /\ UNCHANGED <<app_vars, stats_vars, bus_names, line, pl, ui, visits>>

NextEnum ==
    \/ en_for
    \/ en_accessible_proxy
    \/ en_get_application
    \/ en_name
    \/ en_application_proxy
    \/ en_push
    \/ en_return

SpecEnum == InitEnum /\ [][NextEnum]_vars

\* The positions in bus_names of the names that start with 'x' and for
\* which no call fails, in order.
ValidNames ==
    SelectSeq([i \in 1..Len(bus_names) |-> i],
              LAMBDA i : bus_names[i].x /\ bus_names[i].fails = "none")

\* C17: new returns a line with exactly one passenger, with default
\* statistics, for each name that starts with 'x' and for which all four
\* calls succeed, and none for any other name; until it returns, it always
\* has a next step (a failing call does not end it).
C17_OnePassengerPerValidName ==
    /\ en.pc = "returned" =>
         line = [k \in 1..Len(ValidNames) |-> Passenger(ValidNames[k])]
    /\ en.pc # "returned" => ENABLED NextEnum

C17_Witness ==
    /\ en.pc = "returned"
    /\ bus_names = <<[x |-> TRUE, fails |-> "name"],
                     [x |-> TRUE, fails |-> "none"],
                     [x |-> TRUE, fails |-> "get_application"]>>
    /\ line = <<Passenger(2)>>

(***************************************************************************)
(* The workers around a frame: the event consumer, the per-second task,    *)
(* and run_app, which draws and ticks in turn, between two rounds of the   *)
(* poller.                                                                 *)
(***************************************************************************)
\* loop { terminal.draw(|f| ui(f, &app)); .. if last_tick.elapsed() >=
\* tick_dur { app.on_tick(); } }
run_app(frames, ticks) ==
    \/ Ui(frames)
    \/ (ui.pc = "idle" /\ TickConsumer(ticks))

\* The poller asleep after its first round, in which every passenger
\* answered after MaxRtt.
InitDraw ==
    /\ AppInit
    /\ StatsIdle
    /\ bus_names = <<>>
    /\ line = [i \in 1..NumPassengers |->
                 [Passenger(i) EXCEPT
                    !.stats = update_rtt_stats(ResponseStatsDefault, MaxRtt).rec]]
    /\ en = [pc |-> "returned", i |-> 0]
    /\ pl = [pc |-> "sleep", i |-> 0, round |-> 1, dur |-> 0]
    /\ ui = [pc |-> "idle", k |-> 0, i |-> 0, frames |-> 0,
             server_list |-> <<>>]
    /\ visits = [i \in 1..NumPassengers |-> {"ok"}]

NextDraw ==
    \/ EventConsumer(FewItems, MaxDrawEvents)
    \/ SecondConsumer(MaxDrawSeconds)
    \/ run_app(MaxFrames, MaxDrawTicks)

SpecDraw == InitDraw /\ [][NextDraw]_vars

\* C19: a step of ui changes none of the counters, of rate, max and mean,
\* of the tick history, the per-second history and the error set, and no
\* passenger's statistics.
C19_UiLeavesCoreState ==
    [][ui' # ui =>
         /\ tally' = tally
         /\ rt_stats' = rt_stats
         /\ tick_data' = tick_data
         /\ secs_data' = secs_data
         /\ error_set' = error_set
         /\ \A i \in Servers : line'[i].stats = line[i].stats]_vars

C19_Witness ==
    /\ ui.pc = "render"
    /\ tally["total"] = 1
    /\ tick_data[1] = 1
    /\ secs_data = <<1>>
    /\ rt_stats.rate = 1
    /\ ui.server_list[1].stats.samples = 1
    /\ line[1].stats.samples = 1

(***************************************************************************)
(* The event consumer under a fair scheduler.                              *)
(***************************************************************************)
\* The steps of an on_event call.  The runtime keeps polling the consumer's
\* task: a call that can take its next step takes it.
on_event ==
    \/ ec_classify
    \/ ec_lock
    \/ ec_insert
    \/ ec_tick_incr
    \/ ec_secs_incr
    \/ ec_total_incr

NextEventsFair == EventConsumer(Items, MaxFairEvents)

SpecEventsFair == Init /\ [][NextEventsFair]_vars /\ WF_vars(on_event)

\* C20: every item the stream has delivered, failed or not and whatever
\* came before it, is eventually counted in the lifetime total; and the
\* consumer ends only while it awaits the stream, by the stream's end,
\* never in the step that delivers an item or inside on_event.
C20_ErrorsDoNotHaltConsumer ==
    /\ \A n \in 1..MaxFairEvents :
         (Len(history) >= n) ~> (tally["total"] >= n)
    /\ [][(ec'.pc = "ended" /\ ec.pc # "ended") =>
            (ec.pc = "await" /\ history' = history)]_vars

C20_Witness ==
    /\ Len(history) = 2
    /\ ~history[1].ok
    /\ history[2].ok
    /\ tally["total"] = 2
    /\ tally["error"] = 1
    /\ ec.pc = "ended"

(***************************************************************************)
(* Claims about the counters and the windows (all three workers).          *)
(***************************************************************************)
\* C21: in every step of every worker the lifetime total and each of the
\* twelve category counters keeps or raises its value; the per-tick counter
\* falls only in the step in which on_tick resets it, and the per-second
\* counter only in the step in which on_second resets it, and then to 0.
C21_OnlyWindowCountersReset ==
    [][/\ \A c \in Categories \cup {"total"} : tally'[c] >= tally[c]
       /\ tally'["tick_counter"] < tally["tick_counter"] =>
            /\ tc.pc = "idle" /\ tc'.pc = "lock"
            /\ tally'["tick_counter"] = 0
            /\ ec' = ec /\ sc' = sc
       /\ tally'["secs_counter"] < tally["secs_counter"] =>
            /\ sc.pc = "idle" /\ sc'.pc = "max_load"
            /\ tally'["secs_counter"] = 0
            /\ ec' = ec /\ tc' = tc]_vars

C21_Witness ==
    /\ tally["total"] = 2
    /\ tally["mouse"] = 1
    /\ tally["error"] = 1
    /\ tally["tick_counter"] = 0
    /\ tally["secs_counter"] = 0
    /\ pushed = <<2>>
    /\ secs_data = <<1, 1>>

(***************************************************************************)
(* A later round of the poller beside the ui: every passenger already has  *)
(* the sample of the first round.                                          *)
(***************************************************************************)
NextRound == Poller(MaxRounds) \/ Ui(MaxFrames)

SpecRound == InitDraw /\ [][NextRound]_vars

\* An update of passenger i's statistics has assigned some fields and not
\* the others: it is between its two steps, or it panicked between them.
PartlyUpdated(i) == pl.i = i /\ pl.pc \in {"variance", "panicked"}

\* C22: a step changes a passenger's statistics only if the poller holds
\* that passenger's mutex and is updating it (so one update at a time); ui
\* formats a passenger only while it holds the mutex itself, and never a
\* record that is partly updated; and while an update is in progress the
\* mutex is the poller's.
C22_StatisticsUnderLock ==
    [][/\ \A i \in Servers :
            line'[i].stats # line[i].stats =>
              /\ line[i].mutex = "poller"
              /\ pl.i = i
              /\ pl.pc \in {"update", "variance"}
       /\ ui'.pc = "format" =>
            /\ line'[ui'.i].mutex = "ui"
            /\ \A i \in Servers : ui'.i = i => ~PartlyUpdated(i)'
       /\ pl'.pc \in {"update", "variance"} =>
            line'[pl'.i].mutex = "poller"]_vars

C22_Witness ==
    /\ ui.pc = "format"
    /\ ui.i = 2
    /\ ui.server_list = <<Contended>>
    /\ line[1].mutex = "poisoned"
    /\ PartlyUpdated(1)
    /\ line[2].stats.samples = 1

(***************************************************************************)
(* Claims about the locks.                                                 *)
(***************************************************************************)
\* C23: while an on_event call for a successful event is in progress its
\* next step is enabled whatever the other workers hold, and that step is
\* an increment, not a lock; the event consumer holds a mutex only in the
\* Err arm, and then the error set's and no other.
C23_SuccessPathTakesNoLock ==
    /\ (~EcQuiet /\ ec.item.ok) =>
         /\ ENABLED on_event
         /\ ec.pc \in {"classify", "tick_incr", "secs_incr", "total_incr"}
    /\ \A m \in MutexNames :
         mutex[m] = "events" =>
           /\ m = "error_set"
           /\ ~ec.item.ok
           /\ ec.pc = "insert"

C23_Witness ==
    /\ ec.pc = "tick_incr"
    /\ ec.item.ok
    /\ mutex = [error_set |-> "ui", tick_data |-> "ui", secs_data |-> "second"]

(***************************************************************************)
(* The per-second history around the capacity it is created with: the     *)
(* event consumer and the per-second task from the moment the history is   *)
(* one entry short of SecsCapacity.                                        *)
(***************************************************************************)
\* The seconds that have passed when the runs begin, none with an event.
QuietSeconds == SecsCapacity - 1

\* The state QuietSeconds on_second calls after App::new, with nothing
\* delivered by the stream yet: each call drained 0 and pushed it.
InitSecs ==
    /\ tally = [c \in CounterNames |-> 0]
    /\ rt_stats = [rate |-> 0, max |-> 0, mean |-> 0]
    /\ error_set = {}
    /\ tick_data = VecZeros(TickCapacity)
    /\ secs_data = VecZeros(QuietSeconds)
    /\ mutex = [m \in MutexNames |-> "free"]
    /\ ec = [pc |-> "await", item |-> [ok |-> TRUE, tag |-> "Other"], msg |-> ""]
    /\ tc = [pc |-> "idle", value |-> 0]
    /\ sc = [pc |-> "idle", value |-> 0, len |-> QuietSeconds, mean |-> 0]
    /\ history = <<>>
    /\ entry = [c \in CounterNames |-> 0]
    /\ oplog = [c \in Drained |->
                 IF c = "secs_counter"
                   THEN [i \in 1..QuietSeconds |-> [op |-> "reset", ret |-> 0]]
                   ELSE <<>>]
    /\ pushed = <<>>
    /\ StatsIdle
    /\ BusIdle

NextSecs ==
    \/ EventConsumer(FewItems, MaxSecsEvents)
    \/ SecondConsumer(SecsCapacity + MaxExtraSeconds)

SpecSecs == InitSecs /\ [][NextSecs]_vars

\* C24: the per-second history never grows beyond the capacity it is
\* created with, whatever the number of on_second calls.
C24_SecsHistoryWithinCapacity == Len(secs_data) <= SecsCapacity

\* No on_event call and no on_second call is in progress.
WindowsQuiet == EcQuiet /\ sc.pc = "idle"

\* The entries of the per-second history add up to total_seconds, and with
\* the per-second counter to the lifetime total.
Conservation ==
    /\ SeqSum(secs_data) = tally["total_seconds"]
    /\ SeqSum(secs_data) + tally["secs_counter"] = tally["total"]

\* C25: whenever neither an on_event nor an on_second call is in progress,
\* the per-second history sums to total_seconds and, with the per-second
\* counter added, to the lifetime total; and a step that changes the
\* per-second history appends one entry to it and leaves the earlier
\* entries as they were.
C25_ConservationAcrossWindows ==
    [][/\ WindowsQuiet => Conservation
       /\ (WindowsQuiet => Conservation)'
       /\ secs_data' # secs_data =>
            /\ Len(secs_data') = Len(secs_data) + 1
            /\ SubSeq(secs_data', 1, Len(secs_data)) = secs_data]_vars

C25_Witness ==
    /\ WindowsQuiet
    /\ secs_data = <<1, 0>>
    /\ tally["secs_counter"] = 1
    /\ tally["total"] = 2

(***************************************************************************)
(* What a reader of the tallies can see (event consumer alone).            *)
(***************************************************************************)
\* The twelve category counters added up.
CategorySum ==
    tally["mouse"] + tally["keyboard"] + tally["focus"] + tally["window"]
    + tally["document"] + tally["object"] + tally["terminal"]
    + tally["cache"] + tally["listeners"] + tally["available"]
    + tally["other_event"] + tally["error"]

\* C26: in every state, also in the middle of an on_event call, the
\* lifetime total is at most the sum of the twelve category counters, which
\* is at most the lifetime total plus 1; they are equal whenever no on_event
\* call is in progress.
C26_TotalWithinOneOfCategories ==
    /\ tally["total"] <= CategorySum
    /\ CategorySum <= tally["total"] + 1
    /\ EcQuiet => CategorySum = tally["total"]

C26_Witness ==
    /\ ec.pc = "total_incr"
    /\ ~ec.item.ok
    /\ tally["total"] = 2
    /\ CategorySum = 3

(***************************************************************************)
(* All five workers and their locks.  Each worker call is one operation:   *)
(* an on_event, on_tick or on_second call, a poller round, a frame.  A     *)
(* behaviour starts at most MaxLockOps operations, of any workers, and of  *)
(* one worker no more than its own bound.                                  *)
(***************************************************************************)
MaxLockOps == 2

\* The operations started so far.
LockOps ==
    Len(history) + Len(oplog["tick_counter"]) + Len(oplog["secs_counter"])
    + pl.round + ui.frames + (IF ui.pc = "idle" THEN 0 ELSE 1)

OpBudget(cap) == IF LockOps < MaxLockOps THEN cap ELSE 0

NextLocks ==
    \/ EventConsumer(FewItems, OpBudget(MaxDrawEvents))
    \/ SecondConsumer(OpBudget(MaxDrawSeconds))
    \/ Poller(OpBudget(MaxUiRounds))
    \/ run_app(OpBudget(MaxFrames), OpBudget(MaxDrawTicks))

SpecLocks == InitPoll /\ [][NextLocks]_vars

\* The steps of a call in progress, for each worker: what can run without a
\* new call being started.
on_tick == tc_lock \/ tc_rotate

on_second ==
    \/ sc_max_load
    \/ sc_max_set
    \/ sc_rate_set
    \/ sc_add
    \/ sc_lock
    \/ sc_push
    \/ sc_mean_load
    \/ sc_mean_set

redraw == ui_load \/ ui_error_set \/ ui_try_lock \/ ui_format \/ ui_render

probing ==
    \/ pl_visit
    \/ \E d \in Rtts : pl_acquire_rtt_some(d)
    \/ pl_acquire_rtt_none
    \/ pl_acquire_rtt_pending
    \/ pl_update
    \/ pl_update_variance

\* Who may hold which lock, and at which statements.
LockOwnership ==
    /\ \A m \in MutexNames :
         /\ mutex[m] \in {"free", "events", "tick", "second", "ui"}
         /\ mutex[m] = "events" => m = "error_set" /\ ec.pc = "insert"
         /\ mutex[m] = "tick" => m = "tick_data" /\ tc.pc = "rotate"
         /\ mutex[m] = "second" =>
              m = "secs_data" /\ sc.pc \in {"push", "mean_load", "mean_set"}
         /\ mutex[m] = "ui" => m \in {"tick_data", "error_set"}
    /\ mutex["error_set"] = "ui" => mutex["tick_data"] = "ui"
    /\ mutex["tick_data"] = "ui" <=> ui.pc # "idle"
    /\ \A i \in Servers :
         /\ line[i].mutex \in {"free", "poller", "ui", "poisoned"}
         /\ line[i].mutex = "poller" => pl.i = i
         /\ line[i].mutex = "ui" => ui.i = i /\ mutex["error_set"] = "ui"

\* C27: no worker waits for a lock in a cycle.  The event consumer holds only
\* the error-set lock, on_tick only the tick-history lock, on_second only the
\* per-second-history lock, the poller at most one peer lock, the redraw the
\* error-set lock only together with the tick-history lock; and a worker in
\* the middle of a call either can take its next step, or waits for the
\* error-set lock while the worker holding that lock can take its next step.
\* The redraw never waits for a peer lock.
C27_NoLockCycle ==
    /\ LockOwnership
    /\ ~EcQuiet =>
         \/ ENABLED on_event
         \/ ec.pc = "lock" /\ mutex["error_set"] = "ui" /\ ENABLED redraw
    /\ ui.pc # "idle" =>
         \/ ENABLED redraw
         \/ /\ ui.pc = "error_set"
            /\ mutex["error_set"] = "events"
            /\ ENABLED on_event
    /\ tc.pc # "idle" => ENABLED on_tick
    /\ sc.pc # "idle" => ENABLED on_second
    /\ pl.pc \in {"visit", "probe", "update", "variance"} => ENABLED probing

\* The event consumer waits for the error-set lock, which the redraw holds
\* together with the tick-history lock while it is about to try a peer lock.
C27_Witness ==
    /\ ec.pc = "lock"
    /\ ~ENABLED on_event
    /\ mutex["error_set"] = "ui"
    /\ mutex["tick_data"] = "ui"
    /\ ui.pc = "servers"

(***************************************************************************)
(* The peer locks of the poller (poller and redraw).                       *)
(***************************************************************************)
\* The peers whose lock the poller holds.
HeldByPoller == {i \in Servers : line[i].mutex = "poller"}

\* The poller holds one peer lock at most, and the lock of a peer exactly
\* from its try_lock to the end of that peer's probe and statistics update.
OneLockPerVisit ==
    /\ Cardinality(HeldByPoller) <= 1
    /\ \A i \in Servers :
         line[i].mutex = "poller" <=>
           (pl.i = i /\ pl.pc \in {"probe", "update", "variance", "pending"})
    /\ pl.pc \in {"sleep", "visit"} => HeldByPoller = {}

\* C28: the poller holds at most one peer lock, holds it for the whole probe
\* and statistics update of that peer and not beyond; the poller can always
\* go on towards releasing a peer lock it holds, and no peer lock is left in
\* a condition in which try_lock can never succeed again.
C28_PeerLockReleasedAndAcquirable ==
    /\ OneLockPerVisit
    /\ \A i \in HeldByPoller : ENABLED probing
    /\ \A i \in Servers : line[i].mutex # "poisoned"

=============================================================================
